---- MODULE Spec2Model ----
(***************************************************************************)
(* A model of vevent.py: Calendar.__init__ unwraps the folded lines of an  *)
(* .ics text, parses the VEVENT blocks into the nested dictionary          *)
(* events[year][month][day] and answers the day / current / next queries.  *)
(*                                                                         *)
(* Texts are sequences of one-character strings, so that splitlines, the   *)
(* join, the regular expressions, str.lower, str.replace and strptime are  *)
(* computed character by character as the code computes them.              *)
(***************************************************************************)
EXTENDS Integers, Sequences, FiniteSets, TLC

VARIABLES
  pc,        \* "init" | "unwrap" | "parse" | "ready" | "raised"
  contents,  \* the argument of Calendar(contents)
  content,   \* the text __unwrap returned, the argument of __parse
  lines,     \* the list `lines` of __unwrap, then the lines __parse walks
  i,         \* the loop position in `lines`, 1-based (Python's i + 1)
  event,     \* the local `event` of __parse: None or an Event
  events,    \* self.events: year -> month -> day -> list of Event
  err,       \* the exception that left the constructor, "" when none
  result     \* what the last query returned or raised

vars == <<pc, contents, content, lines, i, event, events, err, result>>

\* The number of fragments an input text is made of.
MaxFrags == 2

(***************************************************************************)
(* Characters                                                              *)
(***************************************************************************)
UpperChars ==
  <<"A","B","C","D","E","F","G","H","I","J","K","L","M",
    "N","O","P","Q","R","S","T","U","V","W","X","Y","Z">>

LowerChars ==
  <<"a","b","c","d","e","f","g","h","i","j","k","l","m",
    "n","o","p","q","r","s","t","u","v","w","x","y","z">>

DigitChars ==
  <<"0","1","2","3","4","5","6","7","8","9">>

UpperSet ==
  {UpperChars[k] : k \in DOMAIN UpperChars}

DigitSet ==
  {DigitChars[k] : k \in DOMAIN DigitChars}

\* [0-9]
IsDigit(c) ==
  c \in DigitSet

\* [A-Z\-]
IsNameChar(c) ==
  c \in UpperSet \/ c = "-"

DigitVal(c) ==
  (CHOOSE k \in DOMAIN DigitChars : DigitChars[k] = c) - 1

\* str.lower() of one character
LowerChar(c) ==
  IF c \in UpperSet
    THEN LowerChars[CHOOSE k \in DOMAIN UpperChars : UpperChars[k] = c]
    ELSE c

\* str.lower()
Lower(s) ==
  [k \in DOMAIN s |-> LowerChar(s[k])]

(***************************************************************************)
(* str.splitlines and "\n".join                                            *)
(***************************************************************************)
\* The line terminators of str.splitlines that the texts here use.
IsBreak(c) ==
  c = "\n" \/ c = "\r"

\* Where the terminators of s start: "\r\n" is one terminator, so the "\n"
\* after a "\r" starts none.
BreakStarts(s) ==
  {k \in DOMAIN s : IsBreak(s[k]) /\ ~(s[k] = "\n" /\ k > 1 /\ s[k - 1] = "\r")}

\* The last character of the terminator that starts at k
BreakEnd(s, k) ==
  IF s[k] = "\r" /\ k < Len(s) /\ s[k + 1] = "\n" THEN k + 1 ELSE k

\* The n-th terminator of s, from the left
NthBreak(s, n) ==
  CHOOSE k \in BreakStarts(s) : Cardinality({h \in BreakStarts(s) : h < k}) = n - 1

\* content.splitlines(): every terminator ends a line, and the characters
\* after the last terminator are a line only when there are any
SplitLines(s) ==
  LET n == Cardinality(BreakStarts(s))
      from(j) == IF j = 1 THEN 1 ELSE BreakEnd(s, NthBreak(s, j - 1)) + 1
      ended == [j \in 1..n |-> SubSeq(s, from(j), NthBreak(s, j) - 1)]
  IN  IF from(n + 1) <= Len(s)
        THEN Append(ended, SubSeq(s, from(n + 1), Len(s)))
        ELSE ended

RECURSIVE JoinLines(_)
\* "\n".join(lines)
JoinLines(ls) ==
  IF ls = <<>> THEN <<>>
  ELSE IF Len(ls) = 1 THEN ls[1]
  ELSE ls[1] \o <<"\n">> \o JoinLines(Tail(ls))

\* lines.pop(k)
Pop(ls, k) ==
  SubSeq(ls, 1, k - 1) \o SubSeq(ls, k + 1, Len(ls))

\* lines[i][0] == " "
IsContinuation(line) ==
  line[1] = " "

\* lines[i - 1] += lines[i][1:]; lines.pop(i)
Fold(ls, k) ==
  Pop([ls EXCEPT ![k - 1] = ls[k - 1] \o Tail(ls[k])], k)

(***************************************************************************)
(* Values of an Event's attributes                                         *)
(***************************************************************************)
None ==
  [t |-> "none"]

Str(s) ==
  [t |-> "str", s |-> s]

\* a naive datetime
DateTime(y, mo, d, h, mi, s, us) ==
  [t |-> "dt", year |-> y, month |-> mo, day |-> d,
   hour |-> h, minute |-> mi, second |-> s, microsecond |-> us]

IsDateTime(v) ==
  v.t = "dt"

DtTuple(v) ==
  <<v.year, v.month, v.day, v.hour, v.minute, v.second, v.microsecond>>

RECURSIVE TupleLess(_, _)
TupleLess(a, b) ==
  IF a = <<>> \/ b = <<>> THEN FALSE
  ELSE IF Head(a) # Head(b) THEN Head(a) < Head(b)
  ELSE TupleLess(Tail(a), Tail(b))

\* a < b on two datetimes
DtLess(a, b) ==
  TupleLess(DtTuple(a), DtTuple(b))

(***************************************************************************)
(* datetime.strptime(stamp, "%Y%m%dT%H%M%S")                               *)
(***************************************************************************)
Num2(s, k) ==
  10 * DigitVal(s[k]) + DigitVal(s[k + 1])

Num4(s, k) ==
  100 * Num2(s, k) + Num2(s, k + 2)

IsLeap(y) ==
  (y % 4 = 0 /\ y % 100 # 0) \/ y % 400 = 0

DaysInMonth(y, mo) ==
  IF mo = 2 THEN (IF IsLeap(y) THEN 29 ELSE 28)
  ELSE IF mo \in {4, 6, 9, 11} THEN 30 ELSE 31

\* stamp is 8 digits, "T", 6 digits (the regular expression's group 2)
StampFields(stamp) ==
  DateTime(Num4(stamp, 1), Num2(stamp, 5), Num2(stamp, 7),
           Num2(stamp, 10), Num2(stamp, 12), Num2(stamp, 14), 0)

\* strptime raises ValueError on a field out of range
StampValid(stamp) ==
  LET v == StampFields(stamp)
  IN  /\ v.year >= 1
      /\ v.month \in 1..12
      /\ v.day \in 1..DaysInMonth(v.year, v.month)
      /\ v.hour \in 0..23
      /\ v.minute \in 0..59
      /\ v.second \in 0..59

stamp_to_datetime(stamp) ==
  StampFields(stamp)

(***************************************************************************)
(* The regular expressions of __parse                                      *)
(***************************************************************************)
\* [0-9]{8}T[0-9]{6} at position k of s
IsStampAt(s, k) ==
  /\ k >= 1
  /\ k + 14 <= Len(s)
  /\ \A j \in 0..7 : IsDigit(s[k + j])
  /\ s[k + 8] = "T"
  /\ \A j \in 9..14 : IsDigit(s[k + j])

\* Where the stamp of "...:([0-9]{8}T[0-9]{6})Z?$" starts: the stamp is
\* anchored at the end of the line, before an optional "Z".
StampPos(s) ==
  IF s # <<>> /\ s[Len(s)] = "Z" THEN Len(s) - 15 ELSE Len(s) - 14

\* re.match("^.+:([0-9]{8}T[0-9]{6})Z?$", line)
MatchStamp(s) ==
  LET k == StampPos(s)
  IN  /\ k >= 3
      /\ IsStampAt(s, k)
      /\ s[k - 1] = ":"

\* The length of the longest prefix of s made of [A-Z\-]
NameRun(s) ==
  CHOOSE r \in 0..Len(s) :
    /\ \A j \in 1..r : IsNameChar(s[j])
    /\ IF r = Len(s) THEN TRUE ELSE ~IsNameChar(s[r + 1])

\* ^NAME(;[^:]+)?$ on the text before the colon
IsNameParams(p) ==
  LET r == NameRun(p)
  IN  /\ r >= 1
      /\ IF r = Len(p) THEN TRUE
         ELSE /\ p[r + 1] = ";"
              /\ Len(p) >= r + 2
              /\ \A j \in (r + 2)..Len(p) : p[j] # ":"

\* re.search("^(?:DT)?([A-Z\-]+)(?:;[^:]+)?:([0-9]{8}T[0-9]{6})Z?$", line)
\* is not None
SearchStamp(s) ==
  /\ MatchStamp(s)
  /\ IsNameParams(SubSeq(s, 1, StampPos(s) - 2))

\* matches.group(1): the name without a leading "DT", which the optional
\* group takes whenever a name character is left after it
StampName(s) ==
  LET r == NameRun(s)
  IN  IF r >= 3 /\ s[1] = "D" /\ s[2] = "T"
        THEN SubSeq(s, 3, r)
        ELSE SubSeq(s, 1, r)

\* matches.group(2)
StampValue(s) ==
  SubSeq(s, StampPos(s), StampPos(s) + 14)

\* The first ":" of s, 0 when there is none
FirstColon(s) ==
  IF \E j \in DOMAIN s : s[j] = ":"
    THEN CHOOSE j \in DOMAIN s : s[j] = ":" /\ \A h \in 1..(j - 1) : s[h] # ":"
    ELSE 0

\* re.match("^[A-Z\-]+(;[^:]+)?:.+$", line), and the re.search of the same
\* shape that follows it
MatchText(s) ==
  LET c == FirstColon(s)
  IN  /\ c >= 2
      /\ c < Len(s)
      /\ IsNameParams(SubSeq(s, 1, c - 1))

\* matches.group(1) of the text pattern
TextName(s) ==
  SubSeq(s, 1, NameRun(s))

\* matches.group(2) of the text pattern
TextValue(s) ==
  SubSeq(s, FirstColon(s) + 1, Len(s))

RECURSIVE Replace2(_, _, _, _)
\* s.replace(a + b, r) for the two-character text a + b
Replace2(s, a, b, r) ==
  IF s = <<>> THEN <<>>
  ELSE IF Len(s) >= 2 /\ s[1] = a /\ s[2] = b
    THEN <<r>> \o Replace2(SubSeq(s, 3, Len(s)), a, b, r)
    ELSE <<s[1]>> \o Replace2(Tail(s), a, b, r)

\* __unformat: r"\n" becomes a newline, then r"\," a comma
unformat(s) ==
  Replace2(Replace2(s, "\\", "n", "\n"), "\\", ",", ",")

(***************************************************************************)
(* Calendar.Event and the dictionary self.events                           *)
(***************************************************************************)
summary ==
  <<"s","u","m","m","a","r","y">>

description ==
  <<"d","e","s","c","r","i","p","t","i","o","n">>

location ==
  <<"l","o","c","a","t","i","o","n">>

start ==
  <<"s","t","a","r","t">>

end ==
  <<"e","n","d">>

\* Event.__init__: the attributes of a new Event, by name
EventInit ==
  [n \in {summary, description, location, start, end} |->
     IF n \in {start, end} THEN None ELSE Str(<<>>)]

\* event = None
NoEvent ==
  [some |-> FALSE, attrs |-> <<>>]

SomeEvent(attrs) ==
  [some |-> TRUE, attrs |-> attrs]

\* A variant of NewEvent: an event in progress is kept
NewEventKeep(cur) ==
  IF cur.some THEN cur ELSE SomeEvent(EventInit)

\* event = Calendar.Event(), whatever `event` held
NewEvent(cur) ==
  SomeEvent(EventInit)

\* setattr(event, name, value)
SetAttr(attrs, name, value) ==
  [n \in DOMAIN attrs \cup {name} |-> IF n = name THEN value ELSE attrs[n]]

\* {}
EmptyDict ==
  <<>>

\* A variant of KeyOf: the end of the event, when it has one
KeyOfEnd(attrs) ==
  IF IsDateTime(attrs[end]) THEN attrs[end] ELSE attrs[start]

\* The datetime whose year, month and day are the keys an event is stored under
KeyOf(attrs) ==
  attrs[start]

\* A variant of AddToBucket: the event goes to the front of the list
AddToBucketFront(bucket, attrs) ==
  <<attrs>> \o bucket

\* self.events[y][m][d].append(event)
AddToBucket(bucket, attrs) ==
  Append(bucket, attrs)

\* The three "not in" tests of the END:VEVENT branch, then the append
Insert(idx, attrs) ==
  LET y  == KeyOf(attrs).year
      mo == KeyOf(attrs).month
      d  == KeyOf(attrs).day
      i1 == IF y \in DOMAIN idx THEN idx ELSE idx @@ (y :> EmptyDict)
      i2 == IF mo \in DOMAIN i1[y] THEN i1
            ELSE [i1 EXCEPT ![y] = @ @@ (mo :> EmptyDict)]
      i3 == IF d \in DOMAIN i2[y][mo] THEN i2
            ELSE [i2 EXCEPT ![y][mo] = @ @@ (d :> <<>>)]
  IN  [i3 EXCEPT ![y][mo][d] = AddToBucket(@, attrs)]

\* The exceptions the constructor can leave with.  event.start.year reads
\* `start` of None when no event is in progress and `year` of a start that is
\* no datetime; matches.group reads `group` of a failed re.search.
AttrErrorStart ==
  "AttributeError:start"

AttrErrorYear ==
  "AttributeError:year"

AttrErrorGroup ==
  "AttributeError:group"

\* A variant of EndOutcome: an event without a start is dropped silently
EndOutcomeLenient(ev, idx) ==
  IF ~ev.some THEN [exc |-> AttrErrorStart, events |-> idx]
  ELSE IF ~IsDateTime(KeyOf(ev.attrs)) THEN [exc |-> "", events |-> idx]
  ELSE [exc |-> "", events |-> Insert(idx, ev.attrs)]

\* The END:VEVENT branch: the exception it raises ("" when none) and the
\* dictionary it leaves
EndOutcome(ev, idx) ==
  IF ~ev.some THEN [exc |-> AttrErrorStart, events |-> idx]
  ELSE IF ~IsDateTime(KeyOf(ev.attrs)) THEN [exc |-> AttrErrorYear, events |-> idx]
  ELSE [exc |-> "", events |-> Insert(idx, ev.attrs)]

\* The timestamp branch: the exception it raises and the attributes it leaves
StampOutcome(attrs, line) ==
  IF ~SearchStamp(line) THEN [exc |-> AttrErrorGroup, attrs |-> attrs]
  ELSE IF ~StampValid(StampValue(line)) THEN [exc |-> "ValueError", attrs |-> attrs]
  ELSE [exc |-> "",
        attrs |-> SetAttr(attrs, Lower(StampName(line)),
                          stamp_to_datetime(StampValue(line)))]

\* The text branch
TextOutcome(attrs, line) ==
  SetAttr(attrs, Lower(TextName(line)), Str(unformat(TextValue(line))))

\* get_events_on_day
EventsOnDay(idx, date) ==
  IF date.year \in DOMAIN idx
    THEN IF date.month \in DOMAIN idx[date.year]
      THEN IF date.day \in DOMAIN idx[date.year][date.month]
        THEN idx[date.year][date.month][date.day]
        ELSE <<>>
      ELSE <<>>
    ELSE <<>>

\* What a query hands back: a value, or the exception it raised
Returned(ev) ==
  [exc |-> "", event |-> ev]

Raised(exc) ==
  [exc |-> exc, event |-> NoEvent]

\* a < b as Python evaluates it: TypeError unless both are datetimes
Comparable(a, b) ==
  IsDateTime(a) /\ IsDateTime(b)

RECURSIVE CurrentScan(_, _, _)
\* The loop of get_current_event from the k-th event of the day on:
\* event.start < date and event.end > date, the second read only when the
\* first holds
CurrentScan(bucket, k, date) ==
  IF k > Len(bucket) THEN Returned(NoEvent)
  ELSE LET e == bucket[k]
       IN  IF ~Comparable(e[start], date) THEN Raised("TypeError")
           ELSE IF ~DtLess(e[start], date) THEN CurrentScan(bucket, k + 1, date)
           ELSE IF ~Comparable(e[end], date) THEN Raised("TypeError")
           ELSE IF DtLess(date, e[end]) THEN Returned(SomeEvent(e))
           ELSE CurrentScan(bucket, k + 1, date)

RECURSIVE NextScan(_, _, _)
\* The loop of get_next_event over the reversed list, from the k-th event
\* down: event.start > date and event.end > date
NextScan(bucket, k, date) ==
  IF k < 1 THEN Returned(NoEvent)
  ELSE LET e == bucket[k]
       IN  IF ~Comparable(e[start], date) THEN Raised("TypeError")
           ELSE IF ~DtLess(date, e[start]) THEN NextScan(bucket, k - 1, date)
           ELSE IF ~Comparable(e[end], date) THEN Raised("TypeError")
           ELSE IF DtLess(date, e[end]) THEN Returned(SomeEvent(e))
           ELSE NextScan(bucket, k - 1, date)

(***************************************************************************)
(* The boundary lines, and the input texts                                 *)
(***************************************************************************)
\* "BEGIN:VEVENT"
BEGIN_VEVENT ==
  <<"B","E","G","I","N",":","V","E","V","E","N","T">>

\* "END:VEVENT"
END_VEVENT ==
  <<"E","N","D",":","V","E","V","E","N","T">>

\* "DTSTART:20170118T090000"
LineStart9 ==
  <<"D","T","S","T","A","R","T",":","2","0","1","7","0","1","1","8","T","0","9","0","0","0","0">>

\* "DTEND:20170118T100000"
LineEnd10 ==
  <<"D","T","E","N","D",":","2","0","1","7","0","1","1","8","T","1","0","0","0","0","0">>

\* "DTSTART;TZID=X:20170118T110000"
LineStart11 ==
  <<"D","T","S","T","A","R","T",";","T","Z","I","D","=","X",":","2","0","1","7","0","1","1","8","T","1","1","0","0","0","0">>

\* "DTEND:20170118T120000Z"
LineEnd12Z ==
  <<"D","T","E","N","D",":","2","0","1","7","0","1","1","8","T","1","2","0","0","0","0","Z">>

\* "DTSTART:20170118T080000"
LineStart8 ==
  <<"D","T","S","T","A","R","T",":","2","0","1","7","0","1","1","8","T","0","8","0","0","0","0">>

\* "DTEND:20170119T120000"
LineEnd19 ==
  <<"D","T","E","N","D",":","2","0","1","7","0","1","1","9","T","1","2","0","0","0","0">>

\* "SUMMARY:a\nb\,c", the backslashes being characters of the line
LineSummary ==
  <<"S","U","M","M","A","R","Y",":","a","\\","n","b","\\",",","c">>

\* "dtstart:20170118T090000"
LineLower ==
  <<"d","t","s","t","a","r","t",":","2","0","1","7","0","1","1","8","T","0","9","0","0","0","0">>

\* "DTSTART;VALUE=DATE:20170118"
LineDateOnly ==
  <<"D","T","S","T","A","R","T",";","V","A","L","U","E","=","D","A","T","E",":","2","0","1","7","0","1","1","8">>

\* "DTSTART:20170230T090000"
LineBadStamp ==
  <<"D","T","S","T","A","R","T",":","2","0","1","7","0","2","3","0","T","0","9","0","0","0","0">>

\* "x"
LineJunk ==
  <<"x">>

\* " b", a continuation line
LineContSpace ==
  <<" ","b">>

\* a tab, then "b": a continuation line
LineContTab ==
  <<"\t","b">>

\* A physical line with its terminator
Ln(line) ==
  line \o <<"\n">>

CrLf(line) ==
  line \o <<"\r","\n">>

\* "DTSTART:20170219T090000"
LineStartFeb ==
  <<"D","T","S","T","A","R","T",":","2","0","1","7","0","2","1","9","T","0","9","0","0","0","0">>

\* "DTSTART:2017011", which the next line continues
LineStartHead ==
  <<"D","T","S","T","A","R","T",":","2","0","1","7","0","1","1">>

\* " 8T093000", a continuation line
LineStartTail ==
  <<" ","8","T","0","9","3","0","0","0">>

\* An event from 09:00 to 10:00 on 2017-01-18
BlockA ==
  Ln(BEGIN_VEVENT) \o Ln(LineStart9) \o Ln(LineEnd10) \o Ln(END_VEVENT)

\* An event from 11:00 to 12:00 on the same day, in "\r\n" lines, with a
\* parameter and a "Z"
BlockB ==
  CrLf(BEGIN_VEVENT) \o CrLf(LineStart11) \o CrLf(LineEnd12Z) \o CrLf(END_VEVENT)

\* An event at 08:00 on the same day with a summary and no DTEND
BlockC ==
  Ln(BEGIN_VEVENT) \o Ln(LineStart8) \o Ln(LineSummary) \o Ln(END_VEVENT)

\* An event at 09:00 on 2017-02-19 with no DTEND
BlockD ==
  Ln(BEGIN_VEVENT) \o Ln(LineStartFeb) \o Ln(END_VEVENT)

\* An event from 08:00 on 2017-01-18 to 12:00 the next day, the DTEND first
\* and the last line not terminated
BlockE ==
  Ln(BEGIN_VEVENT) \o Ln(LineEnd19) \o Ln(LineStart8) \o END_VEVENT

\* An event at 09:30 on 2017-01-18 whose DTSTART is folded
BlockF ==
  Ln(BEGIN_VEVENT) \o Ln(LineStartHead) \o Ln(LineStartTail) \o Ln(END_VEVENT)

\* The start of an event, left in progress
OpenSummary ==
  Ln(BEGIN_VEVENT) \o Ln(LineSummary)

OpenDateOnly ==
  Ln(BEGIN_VEVENT) \o Ln(LineDateOnly)

\* The pieces an input text is made of: whole events, events left in
\* progress, single lines, an empty line and continuation lines
Fragments ==
  { BlockA, BlockB, BlockC, BlockD, BlockE, BlockF,
    OpenSummary, OpenDateOnly,
    Ln(BEGIN_VEVENT), Ln(END_VEVENT), Ln(LineStart9),
    Ln(LineLower), Ln(LineBadStamp), Ln(LineJunk),
    <<"\n">>, Ln(LineContSpace), Ln(LineContTab) }

RECURSIVE Concat(_)
Concat(fs) ==
  IF fs = <<>> THEN <<>> ELSE Head(fs) \o Concat(Tail(fs))

InputTexts ==
  { Concat(fs) : fs \in UNION { [1..n -> Fragments] : n \in 0..MaxFrags } }

\* The instants datetime.today() returns, and the dates asked for
Instants ==
  { DateTime(2017, 1, 18, 7, 0, 0, 0),
    DateTime(2017, 1, 18, 9, 0, 0, 0),
    DateTime(2017, 1, 18, 9, 30, 0, 1),
    DateTime(2017, 1, 18, 10, 0, 0, 0),
    DateTime(2017, 1, 19, 9, 30, 0, 0),
    DateTime(2017, 2, 19, 8, 0, 0, 0) }

NoResult ==
  [op |-> "", date |-> None, exc |-> "", list |-> <<>>, event |-> NoEvent]

(***************************************************************************)
(* Calendar(contents)                                                      *)
(***************************************************************************)
Init ==
  /\ contents \in InputTexts
  /\ pc = "init"
  /\ content = <<>>
  /\ lines = <<>>
  /\ i = 0
  /\ event = NoEvent
  /\ events = EmptyDict
  /\ err = ""
  /\ result = NoResult

\* An exception leaves the constructor
Raise(exc) ==
  /\ pc' = "raised"
  /\ err' = exc

\* __unwrap: lines = content.splitlines(), and the loop starts at the last line
UnwrapSplit ==
  /\ pc = "init"
  /\ lines' = SplitLines(contents)
  /\ i' = Len(lines')
  /\ pc' = "unwrap"
  /\ UNCHANGED <<contents, content, event, events, err, result>>

\* __unwrap, one round of the loop: lines[i][0] of an empty line
UnwrapIndexError ==
  /\ pc = "unwrap"
  /\ i >= 2
  /\ lines[i] = <<>>
  /\ Raise("IndexError")
  /\ UNCHANGED <<contents, content, lines, i, event, events, result>>

\* __unwrap, one round of the loop: a continuation line
UnwrapFold ==
  /\ pc = "unwrap"
  /\ i >= 2
  /\ lines[i] # <<>>
  /\ IsContinuation(lines[i])
  /\ lines' = Fold(lines, i)
  /\ i' = i - 1
  /\ UNCHANGED <<pc, contents, content, event, events, err, result>>

\* __unwrap, one round of the loop: any other line
UnwrapKeep ==
  /\ pc = "unwrap"
  /\ i >= 2
  /\ lines[i] # <<>>
  /\ ~IsContinuation(lines[i])
  /\ i' = i - 1
  /\ UNCHANGED <<pc, contents, content, lines, event, events, err, result>>

\* __unwrap returns the joined lines and __parse starts on them
UnwrapReturn ==
  /\ pc = "unwrap"
  /\ i < 2
  /\ content' = JoinLines(lines)
  /\ events' = EmptyDict
  /\ event' = NoEvent
  /\ lines' = SplitLines(content')
  /\ i' = 1
  /\ pc' = "parse"
  /\ UNCHANGED <<contents, err, result>>

AtLine ==
  pc = "parse" /\ i \in 1..Len(lines)

\* __parse, line == "BEGIN:VEVENT"
ParseBegin ==
  /\ AtLine
  /\ lines[i] = BEGIN_VEVENT
  /\ event' = NewEvent(event)
  /\ i' = i + 1
  /\ UNCHANGED <<pc, contents, content, lines, events, err, result>>

\* __parse, line == "END:VEVENT": the event is stored and event = None
ParseEnd ==
  /\ AtLine
  /\ lines[i] = END_VEVENT
  /\ LET out == EndOutcome(event, events)
     IN  /\ out.exc = ""
         /\ events' = out.events
  /\ event' = NoEvent
  /\ i' = i + 1
  /\ UNCHANGED <<pc, contents, content, lines, err, result>>

\* __parse, line == "END:VEVENT": event.start.year raises
ParseEndRaise ==
  /\ AtLine
  /\ lines[i] = END_VEVENT
  /\ LET out == EndOutcome(event, events)
     IN  /\ out.exc # ""
         /\ Raise(out.exc)
         /\ events' = out.events
  /\ UNCHANGED <<contents, content, lines, i, event, result>>

IsProperty ==
  /\ AtLine
  /\ lines[i] \notin {BEGIN_VEVENT, END_VEVENT}
  /\ event.some

\* __parse, a line the timestamp pattern matches
ParseStamp ==
  /\ IsProperty
  /\ MatchStamp(lines[i])
  /\ LET out == StampOutcome(event.attrs, lines[i])
     IN  /\ out.exc = ""
         /\ event' = SomeEvent(out.attrs)
  /\ i' = i + 1
  /\ UNCHANGED <<pc, contents, content, lines, events, err, result>>

\* __parse, a line the timestamp pattern matches: matches.group or strptime
\* raises
ParseStampRaise ==
  /\ IsProperty
  /\ MatchStamp(lines[i])
  /\ LET out == StampOutcome(event.attrs, lines[i])
     IN  /\ out.exc # ""
         /\ Raise(out.exc)
  /\ UNCHANGED <<contents, content, lines, i, event, events, result>>

\* __parse, a line the text pattern matches
ParseText ==
  /\ IsProperty
  /\ ~MatchStamp(lines[i])
  /\ MatchText(lines[i])
  /\ event' = SomeEvent(TextOutcome(event.attrs, lines[i]))
  /\ i' = i + 1
  /\ UNCHANGED <<pc, contents, content, lines, events, err, result>>

\* __parse, a line that no branch takes
ParseSkip ==
  /\ AtLine
  /\ lines[i] \notin {BEGIN_VEVENT, END_VEVENT}
  /\ ~event.some \/ (~MatchStamp(lines[i]) /\ ~MatchText(lines[i]))
  /\ i' = i + 1
  /\ UNCHANGED <<pc, contents, content, lines, event, events, err, result>>

\* __parse returns: the Calendar is built
ParseReturn ==
  /\ pc = "parse"
  /\ i > Len(lines)
  /\ pc' = "ready"
  /\ UNCHANGED <<contents, content, lines, i, event, events, err, result>>

\* calendar.get_events_on_day(date)
GetEventsOnDay ==
  /\ pc = "ready"
  /\ \E date \in Instants :
       result' = [op |-> "get_events_on_day", date |-> date, exc |-> "",
                  list |-> EventsOnDay(events, date), event |-> NoEvent]
  /\ UNCHANGED <<pc, contents, content, lines, i, event, events, err>>

\* calendar.get_current_event(), datetime.today() being `date`
GetCurrentEvent ==
  /\ pc = "ready"
  /\ \E date \in Instants :
       LET day == EventsOnDay(events, date)
           out == CurrentScan(day, 1, date)
       IN  result' = [op |-> "get_current_event", date |-> date, exc |-> out.exc,
                      list |-> <<>>, event |-> out.event]
  /\ UNCHANGED <<pc, contents, content, lines, i, event, events, err>>

\* calendar.get_next_event(), datetime.today() being `date`
GetNextEvent ==
  /\ pc = "ready"
  /\ \E date \in Instants :
       LET day == EventsOnDay(events, date)
           out == NextScan(day, Len(day), date)
       IN  result' = [op |-> "get_next_event", date |-> date, exc |-> out.exc,
                      list |-> <<>>, event |-> out.event]
  /\ UNCHANGED <<pc, contents, content, lines, i, event, events, err>>

Next ==
  \/ UnwrapSplit
  \/ UnwrapIndexError
  \/ UnwrapFold
  \/ UnwrapKeep
  \/ UnwrapReturn
  \/ ParseBegin
  \/ ParseEnd
  \/ ParseEndRaise
  \/ ParseStamp
  \/ ParseStampRaise
  \/ ParseText
  \/ ParseSkip
  \/ ParseReturn
  \/ GetEventsOnDay
  \/ GetCurrentEvent
  \/ GetNextEvent

Spec ==
  Init /\ [][Next]_vars

(***************************************************************************)
(* Properties                                                              *)
(***************************************************************************)
\* The (year, month, day) triples self.events has a list for
Keys(idx) ==
  UNION { UNION { { <<y, mo, d>> : d \in DOMAIN idx[y][mo] }
                  : mo \in DOMAIN idx[y] }
          : y \in DOMAIN idx }

BucketAt(idx, key) ==
  idx[key[1]][key[2]][key[3]]

\* Every event of self.events
IndexedEvents(idx) ==
  UNION { { BucketAt(idx, key)[k] : k \in DOMAIN BucketAt(idx, key) }
          : key \in Keys(idx) }

OnDay(v, date) ==
  /\ IsDateTime(v)
  /\ v.year = date.year
  /\ v.month = date.month
  /\ v.day = date.day

IsPrefix(a, b) ==
  Len(a) <= Len(b) /\ SubSeq(b, 1, Len(a)) = a

\* The line __parse is at, or has failed at, is END:VEVENT, with an event in
\* progress that has no timestamp for a start
OnEndWithoutStart ==
  /\ i \in 1..Len(lines)
  /\ lines[i] = END_VEVENT
  /\ event.some
  /\ ~IsDateTime(event.attrs[start])

C2_BucketedByStart ==
  pc = "ready" =>
    /\ \A key \in Keys(events) :
         \A k \in DOMAIN BucketAt(events, key) :
           LET s == BucketAt(events, key)[k][start]
           IN  IsDateTime(s) /\ <<s.year, s.month, s.day>> = key
    /\ result.op = "get_events_on_day" =>
         /\ result.exc = ""
         /\ \A e \in IndexedEvents(events) :
              (\E k \in DOMAIN result.list : result.list[k] = e)
                <=> OnDay(e[start], result.date)
         /\ \A k \in DOMAIN result.list : result.list[k] \in IndexedEvents(events)
         /\ <<result.date.year, result.date.month, result.date.day>> \notin Keys(events)
              => result.list = <<>>

\* C2: get_events_on_day has returned an event that ends on another day than
\* it starts
C2_Witness ==
  /\ pc = "ready"
  /\ result.op = "get_events_on_day"
  /\ \E k \in DOMAIN result.list :
       /\ IsDateTime(result.list[k][end])
       /\ ~OnDay(result.list[k][end], result.date)

\* The constructor left with an exception of __parse
ParseFailed ==
  pc = "raised" /\ err # "IndexError"

\* C3: the only fatal condition of the parse is an END:VEVENT line met with an
\* event in progress whose start is unset; END:VEVENT with no event in
\* progress, a line with no event in progress and a line that fits neither
\* pattern cause no failure.
C3_OnlyFatalCondition ==
  ParseFailed => OnEndWithoutStart

RECURSIVE C4_Unfolded(_, _)
\* The lines of ls with every line that begins with a space or a tab
\* appended, without its first character, to the line before it; done is the
\* part already unfolded.
C4_Unfolded(done, ls) ==
  IF ls = <<>> THEN done
  ELSE IF /\ done # <<>>
          /\ Head(ls) # <<>>
          /\ Head(ls)[1] \in {" ", "\t"}
    THEN C4_Unfolded([done EXCEPT ![Len(done)] = @ \o Tail(Head(ls))], Tail(ls))
    ELSE C4_Unfolded(Append(done, Head(ls)), Tail(ls))

\* A line that begins with a space or a tab
IsFolded(line) ==
  line # <<>> /\ line[1] \in {" ", "\t"}

\* __unwrap has returned
Unwrapped ==
  pc \in {"parse", "ready"} \/ ParseFailed

\* C4: when the first line is no continuation, __unwrap returns the lines
\* with every line that begins with a space or a tab folded onto the line
\* before it, and no continuation line is left.
C4_FoldsSpaceAndTab ==
  LET ls == SplitLines(contents)
  IN  (Unwrapped /\ (ls = <<>> \/ ~IsFolded(ls[1]))) =>
        /\ content = JoinLines(C4_Unfolded(<<>>, ls))
        /\ \A k \in DOMAIN SplitLines(content) : ~IsFolded(SplitLines(content)[k])

\* C5: on a text with no continuation line, empty lines included, __unwrap
\* raises nothing and returns the same lines joined by single newlines.
C5_NoContinuationRoundTrip ==
  LET ls == SplitLines(contents)
  IN  (pc \notin {"init", "unwrap"} /\ \A k \in DOMAIN ls : ~IsFolded(ls[k])) =>
        /\ err # "IndexError"
        /\ Unwrapped => content = JoinLines(ls)

\* start < now < end, both strict; an event without an end does not match
IsCurrent(e, now) ==
  /\ IsDateTime(e[start]) /\ DtLess(e[start], now)
  /\ IsDateTime(e[end]) /\ DtLess(now, e[end])

\* start > now and end > now
IsNext(e, now) ==
  /\ IsDateTime(e[start]) /\ DtLess(now, e[start])
  /\ IsDateTime(e[end]) /\ DtLess(now, e[end])

\* C6: get_current_event returns the first event of the day, in stored
\* order, with start < now < end, and None when the day has none.
C6_FirstCurrent ==
  result.op = "get_current_event" =>
    LET day == EventsOnDay(events, result.date)
        hits == {k \in DOMAIN day : IsCurrent(day[k], result.date)}
    IN  /\ result.exc = ""
        /\ IF hits = {} THEN result.event = NoEvent
           ELSE result.event =
                  SomeEvent(day[CHOOSE k \in hits : \A h \in hits : k <= h])

\* C7: get_current_event raises nothing when the day holds an event with no
\* end, and never returns such an event.
C7_EndlessNeverRaises ==
  (/\ result.op = "get_current_event"
   /\ \E e \in IndexedEvents(events) : e[end] = None) =>
    /\ result.exc = ""
    /\ result.event.some => result.event.attrs[end] # None

\* C8: get_next_event returns the first event, from the end of the day's
\* list backwards, with start > now and end > now, and None when the day has
\* none.
C8_LastNext ==
  result.op = "get_next_event" =>
    LET day == EventsOnDay(events, result.date)
        hits == {k \in DOMAIN day : IsNext(day[k], result.date)}
    IN  /\ result.exc = ""
        /\ IF hits = {} THEN result.event = NoEvent
           ELSE result.event =
                  SomeEvent(day[CHOOSE k \in hits : \A h \in hits : k >= h])

\* C9: a step of the parse leaves every list of self.events a prefix of what
\* it becomes, and the only change is the event of an END:VEVENT line added at
\* the end of one list: the lists are in the order of the END:VEVENT lines and
\* are never sorted.
C9_AppendedInTextOrder ==
  [][/\ \A key \in Keys(events) :
          /\ key \in Keys(events')
          /\ IsPrefix(BucketAt(events, key), BucketAt(events', key))
     /\ events' # events =>
          /\ AtLine
          /\ lines[i] = END_VEVENT
          /\ \E key \in Keys(events') :
               /\ BucketAt(events', key) =
                    Append(IF key \in Keys(events) THEN BucketAt(events, key) ELSE <<>>,
                           event.attrs)
               /\ \A other \in Keys(events') \ {key} :
                    /\ other \in Keys(events)
                    /\ BucketAt(events', other) = BucketAt(events, other)]_vars

\* C9: a day's list holds an event that starts before the event stored ahead
\* of it
C9_Witness ==
  /\ pc = "ready"
  /\ \E key \in Keys(events) :
       LET day == BucketAt(events, key)
       IN  \E k \in DOMAIN day :
             k > 1 /\ DtLess(day[k][start], day[k - 1][start])

\* An Event as Event.__init__ leaves it
C10_Blank(ev) ==
  /\ ev.some
  /\ DOMAIN ev.attrs = {summary, description, location, start, end}
  /\ ev.attrs[summary] = Str(<<>>)
  /\ ev.attrs[description] = Str(<<>>)
  /\ ev.attrs[location] = Str(<<>>)
  /\ ev.attrs[start] = None
  /\ ev.attrs[end] = None

\* C10: BEGIN:VEVENT makes the current event a blank one and stores nothing,
\* whatever was in progress; a stored event is no longer the current one; and
\* no other line than END:VEVENT changes self.events.
C10_BeginDiscards ==
  [][AtLine =>
       /\ lines[i] = BEGIN_VEVENT => (C10_Blank(event') /\ events' = events)
       /\ (lines[i] = END_VEVENT /\ pc' = "parse") => event' = NoEvent
       /\ lines[i] # END_VEVENT => events' = events]_vars

\* C10: a second BEGIN:VEVENT has been met after a property of the first
\* event was set, and the current event is blank
C10_Witness ==
  /\ pc = "parse"
  /\ i = 4
  /\ lines[1] = BEGIN_VEVENT
  /\ lines[2] = LineSummary
  /\ lines[3] = BEGIN_VEVENT
  /\ C10_Blank(event)

====
